---------------------------- MODULE Spec2Model ----------------------------
(***************************************************************************)
(* Marzullo's algorithm as implemented in src/lib.rs: the SourceBound      *)
(* comparator, and Interval::try_from_source_bounds (sort, sweep, final    *)
(* checks).                                                                *)
(*                                                                         *)
(* Machine integers.                                                       *)
(*  - i64 (SourceBound.value, Interval bounds).  The inputs are the i64    *)
(*    values that are multiples of 2^(64 - ValueBits); a value is held as  *)
(*    its quotient by that unit, so it ranges over I64Min .. I64Max below  *)
(*    and an i64 subtraction overflows exactly when the difference of the  *)
(*    quotients leaves that range (wrapping modulo 2^64 is wrapping        *)
(*    modulo 2^ValueBits units).  Order and subtraction commute with the   *)
(*    scaling, so on these inputs the model computes what the code does.   *)
(*  - usize (count, best, sources).  Held as a signed integer c standing   *)
(*    for c mod 2^64 (|c| <= number of bounds), compared as unsigned.      *)
(*  - u8 (source, sources_true, sources_false): exact, modulo 256.         *)
(* A build with overflow checks (debug) panics on overflow; a build        *)
(* without them (release) wraps.  overflow_checks is the build's choice.   *)
(***************************************************************************)
EXTENDS Integers, Sequences, FiniteSets

VARIABLES
    source_bounds,    \* the Vec<SourceBound> handed to try_from_source_bounds
    overflow_checks,  \* TRUE: the build panics on integer overflow; FALSE: it wraps
    pc,               \* "input", "returned", "recalled"; "operands", "compared"
    outcome,          \* what the latest call ended with (Option: <<>> before it)
    first_outcome,    \* what the first call ended with, kept across a reordering
    count_wrapped,    \* whether `count -= 1` wrapped below zero in the latest call
    operands,         \* comparator operands <<a, b, c>>
    orderings         \* comparator results for the operands (Option)

vars == <<source_bounds, overflow_checks, pc, outcome, first_outcome,
          count_wrapped, operands, orderings>>

---------------------------------------------------------------------------
(* Bounds of the model *)

\* i64 inputs are the multiples of 2^(64 - ValueBits)
ValueBits == 3
\* sources of a well-formed input (Spec)
MaxSources == 3
\* SpecMany: sources 0 .. k-1 claim one interval and the rest another, k <= MaxSplit
MaxSplit == 3
\* SpecMany: values 0 .. MaxManyValue
MaxManyValue == 1
\* SpecAny, SpecCmp: values 0 .. MaxValue
MaxValue == 1
\* SpecAny: bounds in an input
MaxLen == 4
\* SpecCmp: source identifiers 0 .. MaxSource
MaxSource == 1

(* Program constants *)

\* source: u8, sources_true: u8, sources_false: u8
U8Modulus == 256

I64Min == -(2 ^ (ValueBits - 1))
I64Max == (2 ^ (ValueBits - 1)) - 1
I64Values == I64Min .. I64Max

---------------------------------------------------------------------------
(* Bound model *)

BoundType == {"Lower", "Upper"}

SourceBound(v, s, t) == [value |-> v, source |-> s, bound_type |-> t]

\* impl PartialEq for SourceBound
eq(a, b) == a.value = b.value /\ a.bound_type = b.bound_type

\* cmp with the two bound types exchanged: Upper before Lower at equal value
cmp_upper_first(a, b) ==
    IF eq(a, b)
    THEN IF a.source < b.source THEN "Less"
         ELSE IF a.source > b.source THEN "Greater"
         ELSE "Equal"
    ELSE IF a.value < b.value THEN "Less"
    ELSE IF a.value > b.value THEN "Greater"
    ELSE IF a.bound_type = "Upper" /\ b.bound_type = "Lower" THEN "Less"
    ELSE IF a.bound_type = "Lower" /\ b.bound_type = "Upper" THEN "Greater"
    ELSE "Unreachable"

\* impl Ord for SourceBound; "Unreachable" is the unreachable!() panic
cmp(a, b) ==
    IF eq(a, b)
    THEN IF a.source < b.source THEN "Less"
         ELSE IF a.source > b.source THEN "Greater"
         ELSE "Equal"
    ELSE IF a.value < b.value THEN "Less"
    ELSE IF a.value > b.value THEN "Greater"
    ELSE IF a.bound_type = "Lower" /\ b.bound_type = "Upper" THEN "Less"
    ELSE IF a.bound_type = "Upper" /\ b.bound_type = "Lower" THEN "Greater"
    ELSE "Unreachable"

\* impl PartialOrd: partial_cmp is Some(cmp); `a < b` and `a > b` go through it
lt(a, b) == cmp(a, b) = "Less"
gt(a, b) == cmp(a, b) = "Greater"

---------------------------------------------------------------------------
(* Machine arithmetic *)

\* i64 `a - b` without overflow checks
wrapping_sub(a, b) == ((a - b - I64Min) % (2 ^ ValueBits)) + I64Min

\* whether i64 `a - b` overflows
sub_overflows(a, b) == (a - b) < I64Min \/ (a - b) > I64Max

\* usize `a < b`, on the signed representatives
usize_lt(a, b) == IF (a < 0) = (b < 0) THEN a < b ELSE b < 0

\* `x as u8`
as_u8(x) == x % U8Modulus

---------------------------------------------------------------------------
(* bounds.sort(): the standard library's stable sort by Ord.  v[i] lands  *)
(* after every element that is less than it and every earlier element     *)
(* that is not greater than it.  (A set {e(x) : x \in {d}} with CHOOSE     *)
(* binds x to the value of d, evaluated once.)                            *)

sorted_position(v, i) ==
    1 + Cardinality({j \in 1 .. Len(v) :
                        lt(v[j], v[i]) \/ (j < i /\ ~lt(v[i], v[j]))})

\* the sort left out: the working copy stays in input order
sort_omitted(v) == v

sort(v) ==
    CHOOSE s \in
        {[k \in 1 .. Len(v) |-> v[CHOOSE i \in 1 .. Len(v) : position[i] = k]] :
            position \in {[i \in 1 .. Len(v) |-> sorted_position(v, i)]}} : TRUE

---------------------------------------------------------------------------
(* Results *)

Interval(lo, hi, t, f) ==
    [lower_bound |-> lo, upper_bound |-> hi, sources_true |-> t, sources_false |-> f]

Ok(ivl) == [tag |-> "Ok", interval |-> <<ivl>>]
Err(kind) == [tag |-> kind, interval |-> <<>>]
Panic == [tag |-> "Panic", interval |-> <<>>]

ErrorKinds == {"InvalidSourceBounds", "InvalidSourceBoundsOrder", "IntervalInvariant"}

---------------------------------------------------------------------------
(* Interval::try_from_source_bounds *)

\* bounds[idx], idx counted from 0 as in the code
At(bounds, idx) == bounds[idx + 1]

\* the locals before the loop
LoopInit ==
    [best |-> 0, count |-> 0, iter_prev_bound |-> <<>>, interval |-> <<>>,
     ret |-> <<>>, wrapped |-> FALSE]

\* the tie branch's replacement test: alternative < ivl.upper_bound - ivl.lower_bound
Narrower(alternative, width) == alternative < width

\* the branches that record an interval, once count is updated
Record(bounds, idx, st, checks) ==
    LET bound == At(bounds, idx)
        last  == Len(bounds) - 1
    IN  IF usize_lt(st.best, st.count) /\ idx < last
        THEN [st EXCEPT !.best = st.count,
                        !.interval = <<Interval(bound.value, At(bounds, idx + 1).value, 0, 0)>>]
        ELSE IF st.count = st.best /\ idx < last
                /\ At(bounds, idx + 1).bound_type = "Upper"
        THEN LET next == At(bounds, idx + 1)
             IN  IF checks /\ sub_overflows(next.value, bound.value)
                 THEN [st EXCEPT !.ret = <<Panic>>]
                 ELSE IF st.interval = <<>> THEN st
                 ELSE LET ivl == st.interval[1]
                          alternative == wrapping_sub(next.value, bound.value)
                      IN  IF checks /\ sub_overflows(ivl.upper_bound, ivl.lower_bound)
                          THEN [st EXCEPT !.ret = <<Panic>>]
                          ELSE IF Narrower(alternative,
                                           wrapping_sub(ivl.upper_bound, ivl.lower_bound))
                          THEN [st EXCEPT !.interval =
                                   <<Interval(bound.value, next.value, 0, 0)>>]
                          ELSE st
        ELSE st

\* one iteration of `for (idx, bound) in bounds.iter().enumerate()`
LoopBody(bounds, idx, st, checks) ==
    LET bound == At(bounds, idx)
    IN  IF st.iter_prev_bound # <<>> /\ gt(st.iter_prev_bound[1], bound)
        THEN [st EXCEPT !.ret = <<Err("InvalidSourceBoundsOrder")>>]
        ELSE LET seen == [st EXCEPT !.iter_prev_bound = <<bound>>]
             IN  IF bound.bound_type = "Lower"
                 THEN Record(bounds, idx, [seen EXCEPT !.count = st.count + 1], checks)
                 ELSE IF st.count = 0 /\ checks
                 THEN [seen EXCEPT !.ret = <<Panic>>]
                 ELSE Record(bounds, idx,
                             [seen EXCEPT !.count = st.count - 1,
                                          !.wrapped = st.wrapped \/ st.count = 0],
                             checks)

\* the iterations idx = from .. to - 1, in order, stopping at the first return
RECURSIVE Loop(_, _, _, _, _)
Loop(bounds, from, to, st, checks) ==
    IF from >= to \/ st.ret # <<>> THEN st
    ELSE IF to - from = 1 THEN LoopBody(bounds, from, st, checks)
    ELSE LET mid == (from + to) \div 2
         IN  CHOOSE r \in {Loop(bounds, mid, to, half, checks) :
                               half \in {Loop(bounds, from, mid, st, checks)}} : TRUE

\* the checks after the loop
Finish(sources, st, checks) ==
    IF st.ret # <<>> THEN st.ret[1]
    ELSE IF ~(st.iter_prev_bound # <<>> /\ st.iter_prev_bound[1].bound_type = "Upper")
    THEN Err("IntervalInvariant")
    ELSE IF usize_lt(sources, st.best)
    THEN Err("IntervalInvariant")
    ELSE IF st.interval = <<>>
    THEN Err("IntervalInvariant")
    ELSE LET t == as_u8(st.best)
             f == as_u8(sources - st.best)
             ivl == [st.interval[1] EXCEPT !.sources_true = t, !.sources_false = f]
         IN  IF checks /\ t + f >= U8Modulus
             THEN Panic
             ELSE IF as_u8(t + f) # as_u8(sources)
             THEN Err("IntervalInvariant")
             ELSE Ok(ivl)

\* the call from the sorted copy on
Sweep(sources, bounds, checks) ==
    IF \E i \in 1 .. Len(bounds) - 1 : cmp(bounds[i], bounds[i + 1]) = "Unreachable"
    THEN [ret |-> Panic, wrapped |-> FALSE]
    ELSE IF bounds[1].bound_type # "Lower"
    THEN [ret |-> Err("InvalidSourceBounds"), wrapped |-> FALSE]
    ELSE CHOOSE r \in {[ret |-> Finish(sources, st, checks), wrapped |-> st.wrapped] :
                          st \in {Loop(bounds, 0, Len(bounds), LoopInit, checks)}} : TRUE

\* the whole call: its return value and whether count wrapped on the way
Run(v, checks) ==
    LET sources == Len(v) \div 2
    IN  IF sources = 0
        THEN [ret |-> Ok(Interval(0, 0, 0, 0)), wrapped |-> FALSE]
        ELSE CHOOSE r \in {Sweep(sources, bounds, checks) : bounds \in {sort(v)}} : TRUE

try_from_source_bounds(v, checks) == Run(v, checks).ret

---------------------------------------------------------------------------
(* Inputs *)

\* tests::source_bounds_generator
source_bounds_generator(seed) ==
    [i \in 1 .. Len(seed) |->
        SourceBound(seed[i], (i - 1) \div 2,
                    IF (i - 1) % 2 = 0 THEN "Lower" ELSE "Upper")]

\* seeds of N sources, each with lower <= upper
WellFormedSeeds(n, values) ==
    {s \in [1 .. 2 * n -> values] : \A k \in 1 .. n : s[2 * k - 1] <= s[2 * k]}

---------------------------------------------------------------------------
(* Well-formed inputs of up to MaxSources sources, both builds *)

Init ==
    /\ \E n \in 0 .. MaxSources : \E seed \in WellFormedSeeds(n, I64Values) :
          source_bounds = source_bounds_generator(seed)
    /\ overflow_checks \in BOOLEAN
    /\ pc = "input"
    /\ outcome = <<>>
    /\ first_outcome = <<>>
    /\ count_wrapped = FALSE
    /\ operands = <<>>
    /\ orderings = <<>>

\* the caller calls Interval::try_from_source_bounds(source_bounds)
Call ==
    /\ pc = "input"
    /\ LET r == Run(source_bounds, overflow_checks)
       IN  /\ outcome' = <<r.ret>>
           /\ first_outcome' = <<r.ret>>
           /\ count_wrapped' = r.wrapped
    /\ pc' = "returned"
    /\ UNCHANGED <<source_bounds, overflow_checks, operands, orderings>>

Next == Call

Spec == Init /\ [][Next]_vars

---------------------------------------------------------------------------
(* Well-formed inputs that use every source identifier a u8 can hold, or  *)
(* all but one: sources 0 .. k-1 claim [a.lo, a.hi], the others [b.lo,    *)
(* b.hi].                                                                 *)

ManyValues == 0 .. MaxManyValue

SmallIntervals == {iv \in ManyValues \X ManyValues : iv[1] <= iv[2]}

ManySeed(n, k, a, b) ==
    [i \in 1 .. 2 * n |->
        LET src == (i - 1) \div 2
            iv  == IF src < k THEN a ELSE b
        IN  IF (i - 1) % 2 = 0 THEN iv[1] ELSE iv[2]]

InitMany ==
    /\ \E n \in {U8Modulus - 1, U8Modulus} : \E k \in 0 .. MaxSplit :
       \E a \in SmallIntervals : \E b \in SmallIntervals :
          source_bounds = source_bounds_generator(ManySeed(n, k, a, b))
    /\ overflow_checks \in BOOLEAN
    /\ pc = "input"
    /\ outcome = <<>>
    /\ first_outcome = <<>>
    /\ count_wrapped = FALSE
    /\ operands = <<>>
    /\ orderings = <<>>

SpecMany == InitMany /\ [][Next]_vars

---------------------------------------------------------------------------
(* Any input of up to MaxLen bounds, well-formed or not: the bound at     *)
(* index i belongs to source i / 2 as in the tests' generator, its kind   *)
(* and value are free.  After the first call the caller may call again    *)
(* with two positions of the input exchanged (or none: i = j).            *)

SmallValues == 0 .. MaxValue

AnyInputs ==
    UNION {{[i \in 1 .. n |-> SourceBound(vs[i], (i - 1) \div 2, ts[i])] :
               vs \in [1 .. n -> SmallValues], ts \in [1 .. n -> BoundType]} :
           n \in 0 .. MaxLen}

InitAny ==
    /\ source_bounds \in AnyInputs
    /\ overflow_checks \in BOOLEAN
    /\ pc = "input"
    /\ outcome = <<>>
    /\ first_outcome = <<>>
    /\ count_wrapped = FALSE
    /\ operands = <<>>
    /\ orderings = <<>>

Exchanged(v, i, j) ==
    [k \in 1 .. Len(v) |-> IF k = i THEN v[j] ELSE IF k = j THEN v[i] ELSE v[k]]

\* the caller calls again, with the same bounds in another order
Reorder ==
    /\ pc = "returned"
    /\ \E i \in 1 .. Len(source_bounds) : \E j \in i .. Len(source_bounds) :
          /\ source_bounds' = Exchanged(source_bounds, i, j)
          /\ LET r == Run(source_bounds', overflow_checks)
             IN  /\ outcome' = <<r.ret>>
                 /\ count_wrapped' = r.wrapped
    /\ pc' = "recalled"
    /\ UNCHANGED <<overflow_checks, first_outcome, operands, orderings>>

NextAny == Call \/ Reorder

SpecAny == InitAny /\ [][NextAny]_vars

---------------------------------------------------------------------------
(* The comparator on every triple of bounds *)

CmpBounds ==
    {SourceBound(v, s, t) : v \in SmallValues, s \in 0 .. MaxSource, t \in BoundType}

InitCmp ==
    /\ operands \in CmpBounds \X CmpBounds \X CmpBounds
    /\ pc = "operands"
    /\ orderings = <<>>
    /\ source_bounds = <<>>
    /\ overflow_checks = FALSE
    /\ outcome = <<>>
    /\ first_outcome = <<>>
    /\ count_wrapped = FALSE

Permutations(v) ==
    {[k \in 1 .. Len(v) |-> v[p[k]]] :
        p \in {q \in [1 .. Len(v) -> 1 .. Len(v)] :
                  \A x, y \in 1 .. Len(v) : x # y => q[x] # q[y]}}

\* a == b, a.cmp(b), b.cmp(a), b.cmp(c), a.cmp(c), and sort() of the three in every order
Compare ==
    /\ pc = "operands"
    /\ LET a == operands[1]
           b == operands[2]
           c == operands[3]
       IN  orderings' = <<[eq_ab |-> eq(a, b), ab |-> cmp(a, b), ba |-> cmp(b, a),
                           bc |-> cmp(b, c), ac |-> cmp(a, c),
                           sorted |-> {sort(p) : p \in Permutations(operands)}]>>
    /\ pc' = "compared"
    /\ UNCHANGED <<operands, source_bounds, overflow_checks, outcome, first_outcome,
                   count_wrapped>>

NextCmp == Compare

SpecCmp == InitCmp /\ [][NextCmp]_vars

---------------------------------------------------------------------------
(* Reference notions the claims are stated with *)

Returned == pc \in {"returned", "recalled"}

Result == outcome[1]

Ids(v) == {v[i].source : i \in 1 .. Len(v)}

IndicesOf(v, s, t) == {i \in 1 .. Len(v) : v[i].source = s /\ v[i].bound_type = t}

\* identifiers 0 .. N-1, one Lower and one Upper each, lower <= upper
WellFormed(v) ==
    /\ Len(v) % 2 = 0
    /\ Ids(v) = 0 .. (Len(v) \div 2) - 1
    /\ \A s \in Ids(v) :
          /\ Cardinality(IndicesOf(v, s, "Lower")) = 1
          /\ Cardinality(IndicesOf(v, s, "Upper")) = 1
          /\ \A i \in IndicesOf(v, s, "Lower") : \A j \in IndicesOf(v, s, "Upper") :
                v[i].value <= v[j].value

\* source |-> <<lower, upper>>, of a well-formed input
SourceIntervals(v) ==
    [s \in Ids(v) |->
        <<v[CHOOSE i \in IndicesOf(v, s, "Lower") : TRUE].value,
          v[CHOOSE i \in IndicesOf(v, s, "Upper") : TRUE].value>>]

Minimum(S) == CHOOSE x \in S : \A y \in S : x <= y
Maximum(S) == CHOOSE x \in S : \A y \in S : x >= y

\* the sources whose closed interval contains the point p
Containing(iv, p) == {s \in DOMAIN iv : iv[s][1] <= p /\ p <= iv[s][2]}

\* brute force: the most sources that contain one point
MaxOverlap(iv) ==
    LET points == Minimum({iv[s][1] : s \in DOMAIN iv}) .. Maximum({iv[s][2] : s \in DOMAIN iv})
    IN  Maximum({Cardinality(Containing(iv, p)) : p \in points})

MaxLower(iv, S) == Maximum({iv[s][1] : s \in S})
MinUpper(iv, S) == Minimum({iv[s][2] : s \in S})
Width(iv, S) == MinUpper(iv, S) - MaxLower(iv, S)

\* the sets of m mutually overlapping sources
Cliques(iv, m) ==
    {S \in SUBSET DOMAIN iv : Cardinality(S) = m /\ MaxLower(iv, S) <= MinUpper(iv, S)}

\* the least bound of a non-empty input under the comparator
Least(v) ==
    CHOOSE i \in 1 .. Len(v) : \A j \in 1 .. Len(v) : cmp(v[i], v[j]) \in {"Less", "Equal"}

KindRank(t) == IF t = "Lower" THEN 0 ELSE 1

\* value ascending, then Lower before Upper, then source ascending
LexLess(a, b) ==
    \/ a.value < b.value
    \/ a.value = b.value /\ KindRank(a.bound_type) < KindRank(b.bound_type)
    \/ a.value = b.value /\ a.bound_type = b.bound_type /\ a.source < b.source

Reverse(o) == IF o = "Less" THEN "Greater" ELSE IF o = "Greater" THEN "Less" ELSE o

---------------------------------------------------------------------------
(* Claims *)

\* C1: on a well-formed input of N >= 1 sources, the result's sources_true is the
\* maximum over all points of the number of closed source intervals containing it.
C1_SourcesTrueIsMaxOverlap ==
    (pc = "returned" /\ Len(source_bounds) >= 2 /\ WellFormed(source_bounds)
        /\ Result.tag = "Ok")
    => \A iv \in {SourceIntervals(source_bounds)} :
          Result.interval[1].sources_true = MaxOverlap(iv)

\* C2: on a well-formed input of N >= 1 sources with maximum overlap M, the returned
\* interval is the common intersection of some M mutually overlapping sources and is
\* no wider than the common intersection of any M mutually overlapping sources.
C2_SmallestBestInterval ==
    (pc = "returned" /\ Len(source_bounds) >= 2 /\ WellFormed(source_bounds)
        /\ Result.tag = "Ok")
    => \A iv \in {SourceIntervals(source_bounds)} :
       \A r \in {Result.interval[1]} :
       \A cliques \in {Cliques(iv, MaxOverlap(iv))} :
          /\ \E S \in cliques :
                r.lower_bound = MaxLower(iv, S) /\ r.upper_bound = MinUpper(iv, S)
          /\ \A S \in cliques : r.upper_bound - r.lower_bound <= Width(iv, S)

\* C3: the outcome does not depend on the order of the bounds: a second call on the
\* same bounds, reordered or not, ends exactly as the first.
C3_OrderIndependent ==
    pc = "recalled" => outcome = first_outcome

\* C4: on a well-formed input of N >= 0 sources the call returns an Interval, with
\* sources_true + sources_false = N and 0 <= sources_true <= N.
C4_SucceedsWithCounts ==
    (pc = "returned" /\ WellFormed(source_bounds))
    => /\ Result.tag = "Ok"
       /\ \A r \in {Result.interval[1]} :
             /\ r.sources_true + r.sources_false = Len(source_bounds) \div 2
             /\ 0 <= r.sources_true
             /\ r.sources_true <= Len(source_bounds) \div 2

\* C5: on a well-formed input of N >= 1 sources, exactly sources_true sources have an
\* interval containing the returned interval, and exactly sources_false do not.
C5_AgreeingSources ==
    (pc = "returned" /\ Len(source_bounds) >= 2 /\ WellFormed(source_bounds)
        /\ Result.tag = "Ok")
    => \A iv \in {SourceIntervals(source_bounds)} :
       \A r \in {Result.interval[1]} :
       \A agree \in {{s \in DOMAIN iv :
                        iv[s][1] <= r.lower_bound /\ r.upper_bound <= iv[s][2]}} :
          /\ Cardinality(agree) = r.sources_true
          /\ Cardinality(DOMAIN iv \ agree) = r.sources_false

\* C6: on a non-empty input whose least bound is not a Lower the call fails with
\* InvalidSourceBounds, and no non-empty input gets the early return [0,0], 0, 0.
C6_FirstBoundCheck ==
    (Returned /\ source_bounds # <<>>)
    => /\ source_bounds[Least(source_bounds)].bound_type # "Lower"
             => Result.tag = "InvalidSourceBounds"
       /\ Result # Ok(Interval(0, 0, 0, 0))

\* C7: on any input the call ends by returning an Interval or one of the three typed
\* errors, and the running count is never decremented below zero.
C7_TypedOutcome ==
    Returned => (Result.tag \in {"Ok"} \cup ErrorKinds /\ ~count_wrapped)

\* C8: on a well-formed input the returned interval is, among the maximum-overlap
\* windows of minimal width, the one with the smallest lower bound.
C8_FirstMinimalWins ==
    (pc = "returned" /\ Len(source_bounds) >= 2 /\ WellFormed(source_bounds)
        /\ Result.tag = "Ok")
    => \A iv \in {SourceIntervals(source_bounds)} :
       \A r \in {Result.interval[1]} :
       \A cliques \in {Cliques(iv, MaxOverlap(iv))} :
       \A least \in {Minimum({Width(iv, S) : S \in cliques})} :
          /\ r.upper_bound - r.lower_bound = least
          /\ \A S \in cliques : Width(iv, S) = least => r.lower_bound <= MaxLower(iv, S)

\* C9: the comparator never fails and is the strict total order by value, then Lower
\* before Upper, then source: cmp(b,a) reverses cmp(a,b), Equal only for identical
\* bounds, transitive, and sorting gives one outcome whatever the input order.
C9_TotalOrder ==
    pc = "compared"
    => \A a \in {operands[1]} : \A b \in {operands[2]} : \A c \in {operands[3]} :
       \A o \in {orderings[1]} :
          /\ {o.ab, o.ba, o.bc, o.ac} \subseteq {"Less", "Equal", "Greater"}
          /\ o.ab = (IF a = b THEN "Equal" ELSE IF LexLess(a, b) THEN "Less" ELSE "Greater")
          /\ o.ba = Reverse(o.ab)
          /\ (o.ab = "Less" /\ o.bc = "Less") => o.ac = "Less"
          /\ (o.ab # "Greater" /\ o.bc # "Greater") => o.ac # "Greater"
          /\ Cardinality(o.sorted) = 1
          /\ \A s \in o.sorted : \A i \in 1 .. 2 : cmp(s[i], s[i + 1]) # "Greater"

\* C10: cmp(a, b) is Equal exactly when a and b have the same value and the same
\* kind, and a == b agrees with cmp(a, b) = Equal on every pair.
C10_EqAgreesWithCmp ==
    pc = "compared"
    => \A a \in {operands[1]} : \A b \in {operands[2]} : \A o \in {orderings[1]} :
          /\ (o.ab = "Equal") <=> (a.value = b.value /\ a.bound_type = b.bound_type)
          /\ o.eq_ab <=> (o.ab = "Equal")

---------------------------------------------------------------------------
(* Witnesses *)

\* a second call on two overlapping sources, reordered to start with an Upper bound
C3_Witness ==
    /\ pc = "recalled"
    /\ Len(source_bounds) = 4
    /\ WellFormed(source_bounds)
    /\ source_bounds[1].bound_type = "Upper"
    /\ Result.tag = "Ok"
    /\ Result.interval[1].sources_true = 2

\* a Lower and an Upper of equal value, the Lower from the larger source, compared
\* with a third bound of another value
C9_Witness ==
    /\ pc = "compared"
    /\ operands[1].value = operands[2].value
    /\ operands[1].bound_type = "Lower"
    /\ operands[2].bound_type = "Upper"
    /\ operands[1].source > operands[2].source
    /\ operands[3].value > operands[1].value
    /\ orderings[1].ab = "Less"
    /\ orderings[1].ac = "Less"

=============================================================================
